---- MODULE Spec2Model ----
(***************************************************************************)
(* Model of config_models/models.py: ConfigurationModel, an append-only,   *)
(* cached configuration table, and its manager ConfigurationModelManager.  *)
(*                                                                         *)
(* Two concrete subtypes are modelled: "Global" with KEY_FIELDS = () and   *)
(* "Keyed" with KEY_FIELDS = ("org", "course").  Storage is the set of     *)
(* rows of both tables; the cache is one shared key/value store with       *)
(* expiry.  Instances are records [pk, cls, key, enabled, change_date].    *)
(***************************************************************************)
EXTENDS Integers, Sequences, FiniteSets, TLC

VARIABLES
    rows,       \* the stored rows of all subtypes (a set of instances)
    nextId,     \* the storage's auto-increment counter
    cache,      \* the cache: a function from key strings to [value, expires]
    now,        \* the wall clock
    ticks,      \* how many times the clock has advanced (bounds the model)
    last,       \* the last call that finished: [op, raised, hit, cls, args, ret]
    pc,         \* per process: the step it is at inside save() / current()
    loc         \* per process: the locals of the call it is executing

vars == <<rows, nextId, cache, now, ticks, last, pc, loc>>

(***************************************************************************)
(* Bounds of the model.                                                    *)
(***************************************************************************)
MaxRows == 2
MaxTicks == 1

(***************************************************************************)
(* Program constants and the subtypes.                                     *)
(***************************************************************************)
\* self.pk = None / current.id is None: the unset identifier.  Stored ids
\* start at 1 and the clock at 1, so 0 is free to stand for None.
None == 0

cache_timeout == 600

\* What a finished call leaves in `last`: the operation, the exception it
\* raised ("no" if it returned), whether the cache answered it, the subtype,
\* the arguments and the returned value.  Arguments and results of
\* different operations are values of different kinds; the fields that
\* tell the operations apart come first.
Call(op, raised, hit, cls, args, ret) ==
    [op |-> op, raised |-> raised, hit |-> hit, cls |-> cls, args |-> args, ret |-> ret]

Returned(op, cls, args, ret, hit) == Call(op, "no", hit, cls, args, ret)

Raised(op, cls, args, exc) == Call(op, exc, FALSE, cls, args, None)

Classes == {"Global", "Keyed"}

KEY_FIELDS(cls) == IF cls = "Keyed" THEN <<"org", "course">> ELSE <<>>

\* The key tuples in use.  Key values are arbitrary strings: a value may
\* contain a comma.
KeyTuples(cls) ==
    IF cls = "Keyed"
    THEN {<<"x", "z">>, <<"x", "y,z">>, <<"x,y", "z">>}
    ELSE {<<>>}

\* The positional arguments callers pass to current(): the key tuples, and
\* one tuple of the wrong length per subtype.
ArgTuples(cls) == KeyTuples(cls) \cup {<<"x">>}

\* The clock advances by one unit or by the cache timeout.
TickDeltas == {1, cache_timeout}

Range(s) == {s[i] : i \in DOMAIN s}

Max(S) == CHOOSE m \in S : \A n \in S : n <= m

\* ','.join(seq)
RECURSIVE Join(_)
Join(seq) ==
    IF Len(seq) = 0 THEN ""
    ELSE IF Len(seq) = 1 THEN seq[1]
    ELSE seq[1] \o "," \o Join(Tail(seq))

\* dict(zip(cls.KEY_FIELDS, args)): zip stops at the shorter sequence.
KeyDict(cls, args) ==
    LET n == IF Len(args) < Len(KEY_FIELDS(cls)) THEN Len(args) ELSE Len(KEY_FIELDS(cls))
    IN  [i \in 1..n |-> args[i]]

\* cls(**key_dict): an instance that is not persisted.  Key fields absent
\* from key_dict keep the field default, the empty string.
NewInstance(cls, kd, en) ==
    [pk |-> None,
     cls |-> cls,
     key |-> [i \in 1..Len(KEY_FIELDS(cls)) |-> IF i \in DOMAIN kd THEN kd[i] ELSE ""],
     enabled |-> en,
     change_date |-> None]

\* getattr(instance, name)
GetAttr(inst, name) ==
    CASE name = "id" -> inst.pk
      [] name = "enabled" -> inst.enabled
      [] name = "change_date" -> inst.change_date
      [] name = "changed_by" -> inst.changed_by
      [] name = "groups" -> inst.groups
      [] OTHER -> LET i == CHOOSE j \in DOMAIN KEY_FIELDS(inst.cls) : KEY_FIELDS(inst.cls)[j] = name
                  IN  inst.key[i]

Table(cls) == {r \in rows : r.cls = cls}

(***************************************************************************)
(* The cache backend: get, set with expiry, delete.  An entry set at time  *)
(* t with timeout d is served while the clock is before t + d.             *)
(***************************************************************************)
\* cache.get(key) is not None
CacheHas(c, key, t) == key \in DOMAIN c /\ c[key].expires > t

\* cache.get(key), when it is not None
CacheGet(c, key) == c[key].value

\* cache.set(key, value, timeout)
CacheSet(c, key, value, timeout, t) ==
    [k \in DOMAIN c \cup {key} |->
        IF k = key THEN [value |-> value, expires |-> t + timeout] ELSE c[k]]

\* cache.delete(key)
CacheDelete(c, key) == [k \in DOMAIN c \ {key} |-> c[k]]

(***************************************************************************)
(* ConfigurationModel: cache key names.                                    *)
(***************************************************************************)
\* cache_key_name raises TypeError on an argument-count mismatch, but only
\* when KEY_FIELDS is not empty.
CacheKeyNameRaises(cls, args) ==
    KEY_FIELDS(cls) # <<>> /\ Len(args) # Len(KEY_FIELDS(cls))

cache_key_name(cls, args) ==
    IF KEY_FIELDS(cls) # <<>>
    THEN "configuration/" \o cls \o "/current/" \o Join(args)
    ELSE "configuration/" \o cls \o "/current"

key_values_cache_key_name(cls, key_fields) ==
    LET fields == IF key_fields # <<>> THEN key_fields ELSE KEY_FIELDS(cls)
    IN  "configuration/" \o cls \o "/key_values/" \o Join(fields)

(***************************************************************************)
(* ConfigurationModel.save                                                 *)
(***************************************************************************)
\* Faulty variant of ClearPk: the identifier is kept, so that saving a
\* loaded instance updates its row.
KeepPk(inst) == inst

\* self.pk = None
ClearPk(inst) == [inst EXCEPT !.pk = None]

\* Faulty variant of InsertRow: the storage hands out the identifier it
\* handed out last.
InsertRowReusingId(rs, nid, inst, t) ==
    LET id == IF nid > 1 THEN nid - 1 ELSE nid
    IN  [rows |-> rs \cup {[inst EXCEPT !.pk = id, !.change_date = t]},
         nextId |-> nid + 1,
         inst |-> [inst EXCEPT !.pk = id, !.change_date = t]]

\* The INSERT: the storage assigns the next identifier; change_date
\* (auto_now_add) is the time t the instance read from the clock.
InsertRow(rs, nid, inst, t) ==
    [rows |-> rs \cup {[inst EXCEPT !.pk = nid, !.change_date = t]},
     nextId |-> nid + 1,
     inst |-> [inst EXCEPT !.pk = nid, !.change_date = t]]

\* super().save(): an instance without identifier is inserted; one with an
\* identifier overwrites the row of that identifier (or is inserted under
\* it when no such row exists).  auto_now_add touches change_date only on
\* insert.
ModelSave(rs, nid, inst, t) ==
    IF inst.pk = None
    THEN InsertRow(rs, nid, inst, t)
    ELSE IF \E r \in rs : r.pk = inst.pk
         THEN [rows |-> {r \in rs : r.pk # inst.pk} \cup {inst},
               nextId |-> nid,
               inst |-> inst]
         ELSE [rows |-> rs \cup {[inst EXCEPT !.change_date = t]},
               nextId |-> nid,
               inst |-> [inst EXCEPT !.change_date = t]]

\* cache.delete(self.cache_key_name(*[getattr(self, key) for key in self.KEY_FIELDS]))
DeleteCurrentKey(c, inst) ==
    CacheDelete(c, cache_key_name(inst.cls,
        [i \in 1..Len(KEY_FIELDS(inst.cls)) |-> GetAttr(inst, KEY_FIELDS(inst.cls)[i])]))

\* Faulty variant of DeleteKeyValuesKey: the cached enumeration survives
\* the save.
KeepKeyValuesKey(c, inst) == c

\* if self.KEY_FIELDS: cache.delete(self.key_values_cache_key_name())
DeleteKeyValuesKey(c, inst) ==
    IF KEY_FIELDS(inst.cls) # <<>>
    THEN CacheDelete(c, key_values_cache_key_name(inst.cls, <<>>))
    ELSE c

\* The instances callers save on subtype cls: freshly constructed ones,
\* and ones loaded from a stored row (which carry its pk and change_date),
\* with either value of enabled.
SaveInputs(cls) ==
    {NewInstance(cls, KeyDict(cls, k), en) : k \in KeyTuples(cls), en \in BOOLEAN}
    \cup {[r EXCEPT !.enabled = en] : r \in {x \in rows : x.cls = cls}, en \in BOOLEAN}

Save(inst) ==
    /\ Cardinality(rows) < MaxRows
    /\ LET stored == ModelSave(rows, nextId, ClearPk(inst), now)
       IN  /\ rows' = stored.rows
           /\ nextId' = stored.nextId
           /\ cache' = DeleteKeyValuesKey(DeleteCurrentKey(cache, stored.inst), stored.inst)
           /\ last' = Returned("save", inst.cls, inst, stored.inst, FALSE)
    /\ UNCHANGED <<now, ticks, pc, loc>>

\* save() when one of its three calls raises.  save() has no try/except
\* and opens no transaction: the exception leaves through save() after the
\* calls before it have taken effect.  at = "insert": super().save()
\* raises, nothing was done.  at = "delete_current": the row is stored and
\* the first cache.delete raises.  at = "delete_key_values": the row is
\* stored, the first deletion is done and the second cache.delete raises.
SaveFailurePoints(cls) ==
    {"insert", "delete_current"}
        \cup (IF KEY_FIELDS(cls) # <<>> THEN {"delete_key_values"} ELSE {})

SaveFails(inst, at) ==
    /\ Cardinality(rows) < MaxRows
    /\ at \in SaveFailurePoints(inst.cls)
    /\ LET stored == ModelSave(rows, nextId, ClearPk(inst), now)
       IN  CASE at = "insert" ->
                  /\ last' = Raised("save", inst.cls, inst, "DatabaseError")
                  /\ UNCHANGED <<rows, nextId, cache>>
             [] at = "delete_current" ->
                  /\ rows' = stored.rows
                  /\ nextId' = stored.nextId
                  /\ last' = Raised("save", inst.cls, inst, "CacheError")
                  /\ UNCHANGED cache
             [] at = "delete_key_values" ->
                  /\ rows' = stored.rows
                  /\ nextId' = stored.nextId
                  /\ cache' = DeleteCurrentKey(cache, stored.inst)
                  /\ last' = Raised("save", inst.cls, inst, "CacheError")
    /\ UNCHANGED <<now, ticks, pc, loc>>

(***************************************************************************)
(* ConfigurationModel.current and is_enabled                               *)
(***************************************************************************)
\* cls.objects.filter(**key_dict)
Filter(rs, cls, kd) ==
    {r \in rs : r.cls = cls /\ \A i \in DOMAIN kd : r.key[i] = kd[i]}

\* .order_by('-change_date')[0]: the rows that can come first.  The order
\* among rows of equal change_date is the storage's choice.
FirstByChangeDate(matching) ==
    {r \in matching : \A o \in matching : o.change_date <= r.change_date}

\* The try/except of current(): the first row, or cls(**key_dict) on
\* IndexError.  The set holds every instance the lookup can yield.
Lookup(rs, cls, args) ==
    LET kd == KeyDict(cls, args)
        matching == Filter(rs, cls, kd)
    IN  IF matching = {}
        THEN {NewInstance(cls, kd, FALSE)}
        ELSE FirstByChangeDate(matching)

Current(cls, args) ==
    /\ IF CacheKeyNameRaises(cls, args)
       THEN /\ last' = Raised("current", cls, args, "TypeError")
            /\ UNCHANGED cache
       ELSE LET key == cache_key_name(cls, args)
            IN  IF CacheHas(cache, key, now)
                THEN /\ last' = Returned("current", cls, args, CacheGet(cache, key), TRUE)
                     /\ UNCHANGED cache
                ELSE \E cur \in Lookup(rows, cls, args) :
                     /\ cache' = CacheSet(cache, key, cur, cache_timeout, now)
                     /\ last' = Returned("current", cls, args, cur, FALSE)
    /\ UNCHANGED <<rows, nextId, now, ticks, pc, loc>>

\* is_enabled: cls.current(*key_fields).enabled
IsEnabled(cls, args) ==
    /\ IF CacheKeyNameRaises(cls, args)
       THEN /\ last' = Raised("is_enabled", cls, args, "TypeError")
            /\ UNCHANGED cache
       ELSE LET key == cache_key_name(cls, args)
            IN  IF CacheHas(cache, key, now)
                THEN /\ last' = Returned("is_enabled", cls, args, CacheGet(cache, key).enabled, TRUE)
                     /\ UNCHANGED cache
                ELSE \E cur \in Lookup(rows, cls, args) :
                     /\ cache' = CacheSet(cache, key, cur, cache_timeout, now)
                     /\ last' = Returned("is_enabled", cls, args, cur.enabled, FALSE)
    /\ UNCHANGED <<rows, nextId, now, ticks, pc, loc>>

(***************************************************************************)
(* ConfigurationModel.fields_equal and equal_to_current                    *)
(***************************************************************************)
\* self._meta.get_fields(): the fields of the base class and the key
\* fields of the subtype; the keyed subtype also declares a many-to-many
\* field, groups.
MetaFields(cls) ==
    {[name |-> "id", many_to_many |-> FALSE],
     [name |-> "change_date", many_to_many |-> FALSE],
     [name |-> "changed_by", many_to_many |-> FALSE],
     [name |-> "enabled", many_to_many |-> FALSE]}
    \cup {[name |-> KEY_FIELDS(cls)[i], many_to_many |-> FALSE] : i \in DOMAIN KEY_FIELDS(cls)}
    \cup (IF cls = "Keyed" THEN {[name |-> "groups", many_to_many |-> TRUE]} ELSE {})

\* Faulty variant of DefaultFieldsToIgnore: nothing is ignored.
IgnoreNothing == {}

\* fields_to_ignore=("id", "change_date", "changed_by")
DefaultFieldsToIgnore == {"id", "change_date", "changed_by"}

\* fields_equal: False at the first compared field that differs, True
\* when the loop ends.
FieldsEqual(self, instance, fields_to_ignore) ==
    \A field \in MetaFields(self.cls) :
        (~field.many_to_many /\ field.name \notin fields_to_ignore)
            => GetAttr(instance, field.name) = GetAttr(self, field.name)

\* The instances fields_equal is applied to: every combination of id,
\* change_date, changed_by, enabled, key fields and related groups.
FullInstances ==
    [pk : {None} \cup 1..MaxRows,
     cls : {"Keyed"},
     key : KeyTuples("Keyed"),
     enabled : BOOLEAN,
     change_date : {None} \cup 1..(1 + MaxTicks),
     changed_by : {None, 1},
     groups : {{}, {"g"}}]

\* A caller holding two instances calls self.fields_equal(instance).
FieldsEqualCall(p) ==
    /\ pc[p] = "fields_equal"
    /\ last' = Returned("fields_equal", loc[p].self.cls, <<loc[p].self, loc[p].instance>>,
                        FieldsEqual(loc[p].self, loc[p].instance, DefaultFieldsToIgnore), FALSE)
    /\ pc' = [pc EXCEPT ![p] = "idle"]
    /\ loc' = [loc EXCEPT ![p] = <<>>]
    /\ UNCHANGED <<rows, nextId, cache, now, ticks>>

\* The payloads handed to equal_to_current: key fields and enabled (what
\* is left of the json after its to-many relations are popped).
Payloads(cls) == [key : KeyTuples(cls), enabled : BOOLEAN]

\* equal_to_current: new_instance = cls(**json); current = the cached
\* current() of its key fields; False when current has no id, otherwise
\* current.fields_equal(new_instance, fields_to_ignore).
EqualToCurrent(cls, json) ==
    LET new_instance == NewInstance(cls, KeyDict(cls, json.key), json.enabled)
        key_field_args ==
            [i \in 1..Len(KEY_FIELDS(cls)) |-> GetAttr(new_instance, KEY_FIELDS(cls)[i])]
        key == cache_key_name(cls, key_field_args)
        Result(current) ==
            IF current.pk # None
            THEN FieldsEqual(current, new_instance, DefaultFieldsToIgnore)
            ELSE FALSE
    IN  /\ IF CacheHas(cache, key, now)
           THEN /\ last' = Returned("equal_to_current", cls, json,
                                    Result(CacheGet(cache, key)), TRUE)
                /\ UNCHANGED cache
           ELSE \E current \in Lookup(rows, cls, key_field_args) :
                /\ cache' = CacheSet(cache, key, current, cache_timeout, now)
                /\ last' = Returned("equal_to_current", cls, json, Result(current), FALSE)
        /\ UNCHANGED <<rows, nextId, now, ticks, pc, loc>>

(***************************************************************************)
(* ConfigurationModel.key_values                                           *)
(***************************************************************************)
\* The field lists callers pass: none (the default), or one key field.
FieldArgs(cls) == {<<>>} \cup {<<KEY_FIELDS(cls)[i]>> : i \in DOMAIN KEY_FIELDS(cls)}

\* values_list(*key_fields, flat=flat) raises TypeError when flat is given
\* with more than one field.
ValuesListRaises(fields, flat) == flat /\ Len(fields) > 1

\* list(cls.objects.values_list(*key_fields, flat=flat).order_by().distinct()):
\* the distinct combinations over every stored row.  The list carries no
\* order (order_by() clears it) and is modelled as a set; with flat its
\* members are the values themselves, otherwise tuples.  The result
\* records which of the two kinds of list it is.
ValuesList(rs, cls, fields, flat) ==
    [flat |-> flat,
     values |->
        IF flat
        THEN {GetAttr(r, fields[1]) : r \in {x \in rs : x.cls = cls}}
        ELSE {[i \in 1..Len(fields) |-> GetAttr(r, fields[i])] : r \in {x \in rs : x.cls = cls}}]

KeyValues(cls, key_fields, flat) ==
    LET fields == IF key_fields # <<>> THEN key_fields ELSE KEY_FIELDS(cls)
        key == key_values_cache_key_name(cls, fields)
        args == [fields |-> key_fields, flat |-> flat]
    IN  /\ IF CacheHas(cache, key, now)
           THEN /\ last' = Returned("key_values", cls, args, CacheGet(cache, key), TRUE)
                /\ UNCHANGED cache
           ELSE IF ValuesListRaises(fields, flat)
           THEN /\ last' = Raised("key_values", cls, args, "TypeError")
                /\ UNCHANGED cache
           ELSE LET values == ValuesList(rows, cls, fields, flat)
                IN  /\ cache' = CacheSet(cache, key, values, cache_timeout, now)
                    /\ last' = Returned("key_values", cls, args, values, FALSE)
        /\ UNCHANGED <<rows, nextId, now, ticks, pc, loc>>

(***************************************************************************)
(* ConfigurationModelManager                                               *)
(***************************************************************************)
Min(S) == CHOOSE m \in S : \A n \in S : m <= n

\* Faulty variant of current_ids_subquery: SELECT MIN(id) ... GROUP BY.
min_ids_subquery(rs, cls) ==
    {Min({r.pk : r \in {x \in rs : x.cls = cls /\ x.key = k}}) :
        k \in {y.key : y \in {x \in rs : x.cls = cls}}}

\* SELECT MAX(id) FROM table GROUP BY key_fields
current_ids_subquery(rs, cls) ==
    {Max({r.pk : r \in {x \in rs : x.cls = cls /\ x.key = k}}) :
        k \in {y.key : y \in {x \in rs : x.cls = cls}}}

\* current_set(): the rows whose id is IN (subquery), each annotated
\* is_active = 1.
current_set(rs, cls) ==
    {[row |-> r, is_active |-> 1] :
        r \in {x \in rs : x.cls = cls /\ x.pk \in current_ids_subquery(rs, cls)}}

CurrentSet(cls) ==
    /\ IF KEY_FIELDS(cls) = <<>>
       THEN last' = Raised("current_set", cls, <<>>, "AssertionError")
       ELSE last' = Returned("current_set", cls, <<>>, current_set(rows, cls), FALSE)
    /\ UNCHANGED <<rows, nextId, cache, now, ticks, pc, loc>>

\* The rows of cls, each annotated is_active: 1 when its id is among ids,
\* 0 otherwise (the value of the SQL comparison).
ActiveFlagRows(rs, cls, ids) ==
    {[row |-> r, is_active |-> IF r.pk \in ids THEN 1 ELSE 0] :
        r \in {x \in rs : x.cls = cls}}

\* with_active_flag().  With KEY_FIELDS: every row, flagged by id IN
\* (subquery).  Without: every row, flagged by id = current().pk, where
\* current() is the cached call above (it may answer from the cache, and
\* caches what it looked up); when current() has no pk the comparison
\* reads "id = None", which no database accepts.
WithActiveFlag(cls) ==
    /\ IF KEY_FIELDS(cls) # <<>>
       THEN /\ last' = Returned("with_active_flag", cls, <<>>,
                           ActiveFlagRows(rows, cls, current_ids_subquery(rows, cls)), FALSE)
            /\ UNCHANGED cache
       ELSE LET key == cache_key_name(cls, <<>>)
                Outcome(cur, hit) ==
                    IF cur.pk = None
                    THEN Raised("with_active_flag", cls, <<>>, "DatabaseError")
                    ELSE Returned("with_active_flag", cls, <<>>,
                                  ActiveFlagRows(rows, cls, {cur.pk}), hit)
            IN  IF CacheHas(cache, key, now)
                THEN /\ last' = Outcome(CacheGet(cache, key), TRUE)
                     /\ UNCHANGED cache
                ELSE \E cur \in Lookup(rows, cls, <<>>) :
                     /\ cache' = CacheSet(cache, key, cur, cache_timeout, now)
                     /\ last' = Outcome(cur, FALSE)
    /\ UNCHANGED <<rows, nextId, now, ticks, pc, loc>>

(***************************************************************************)
(* The clock.                                                              *)
(***************************************************************************)
Tick(d) ==
    /\ ticks < MaxTicks
    /\ now' = now + d
    /\ ticks' = ticks + 1
    /\ UNCHANGED <<rows, nextId, cache, last, pc, loc>>

(***************************************************************************)
(* The specifications.  In each, calls run one at a time, each to          *)
(* completion.  The cache keys of current() and those of key_values() are  *)
(* different strings and the manager's queries read the rows only, so each *)
(* group of operations is explored with save() and the clock on its own.   *)
(***************************************************************************)
Procs == {"p1", "p2"}

Init ==
    /\ rows = {}
    /\ nextId = 1
    /\ cache = <<>>
    /\ now = 1
    /\ ticks = 0
    /\ last = Returned("init", "Keyed", <<>>, None, FALSE)
    /\ pc = [p \in Procs |-> "idle"]
    /\ loc = [p \in Procs |-> <<>>]

\* save(), current(), is_enabled() and the clock.
Next ==
    \/ \E inst \in SaveInputs("Keyed") : Save(inst)
    \/ \E args \in ArgTuples("Keyed") : Current("Keyed", args)
    \/ \E args \in ArgTuples("Keyed") : IsEnabled("Keyed", args)
    \/ \E d \in TickDeltas : Tick(d)

Spec == Init /\ [][Next]_vars

\* save(), key_values() with the default field list, current() and the
\* clock.
NextKeyValues ==
    \/ \E inst \in SaveInputs("Keyed") : Save(inst)
    \/ \E flat \in BOOLEAN : KeyValues("Keyed", <<>>, flat)
    \/ \E args \in KeyTuples("Keyed") : Current("Keyed", args)
    \/ \E d \in TickDeltas : Tick(d)

SpecKeyValues == Init /\ [][NextKeyValues]_vars

\* save(), the manager's current_set() and the clock.
NextManager ==
    \/ \E inst \in SaveInputs("Keyed") : Save(inst)
    \/ CurrentSet("Keyed")
    \/ \E d \in TickDeltas : Tick(d)

SpecManager == Init /\ [][NextManager]_vars

\* Both subtypes side by side: save() and current() on each, the manager's
\* with_active_flag() on each, and the clock.
NextSubtypes ==
    \/ \E cls \in Classes : \E inst \in SaveInputs(cls) : Save(inst)
    \/ \E cls \in Classes : \E args \in ArgTuples(cls) : Current(cls, args)
    \/ \E cls \in Classes : WithActiveFlag(cls)
    \/ \E d \in TickDeltas : Tick(d)

SpecSubtypes == Init /\ [][NextSubtypes]_vars

\* save() that may fail part-way, current() and the clock.
NextSaveFails ==
    \/ \E inst \in SaveInputs("Keyed") : Save(inst)
    \/ \E inst \in SaveInputs("Keyed") :
          \E at \in SaveFailurePoints("Keyed") : SaveFails(inst, at)
    \/ \E args \in KeyTuples("Keyed") : Current("Keyed", args)
    \/ \E d \in TickDeltas : Tick(d)

SpecSaveFails == Init /\ [][NextSaveFails]_vars

\* fields_equal applied to every pair of instances: the first caller
\* starts out holding any two of them.
InitFieldsEqual ==
    /\ rows = {}
    /\ nextId = 1
    /\ cache = <<>>
    /\ now = 1
    /\ ticks = 0
    /\ last = Returned("init", "Keyed", <<>>, None, FALSE)
    /\ pc = [p \in Procs |-> IF p = "p1" THEN "fields_equal" ELSE "idle"]
    /\ \E self \in FullInstances : \E instance \in FullInstances :
          loc = [p \in Procs |->
                    IF p = "p1" THEN [self |-> self, instance |-> instance] ELSE <<>>]

NextFieldsEqual == \E p \in Procs : FieldsEqualCall(p)

SpecFieldsEqual == InitFieldsEqual /\ [][NextFieldsEqual]_vars

\* save(), equal_to_current() and the clock.
NextEqual ==
    \/ \E inst \in SaveInputs("Keyed") : Save(inst)
    \/ \E json \in Payloads("Keyed") : EqualToCurrent("Keyed", json)
    \/ \E d \in TickDeltas : Tick(d)

SpecEqual == Init /\ [][NextEqual]_vars

\* save(), key_values() for every field list and both values of flat, and
\* the clock.
NextProjections ==
    \/ \E inst \in SaveInputs("Keyed") : Save(inst)
    \/ \E key_fields \in FieldArgs("Keyed") : \E flat \in BOOLEAN :
          KeyValues("Keyed", key_fields, flat)
    \/ \E d \in TickDeltas : Tick(d)

SpecProjections == Init /\ [][NextProjections]_vars

(***************************************************************************)
(* Concurrent callers.  Two processes share the storage and the cache and  *)
(* call save() and current() on one key tuple; the storage and cache       *)
(* operations inside a call are the atomic steps.  save(): the instance    *)
(* drops its pk and reads the clock for change_date (pre_save), then the   *)
(* INSERT, then the two cache deletions.  current(): cache.get, then the   *)
(* query, then cache.set.                                                  *)
(***************************************************************************)
ConcKey == <<"x", "z">>

SaveBegin(p, inst) ==
    /\ pc[p] = "idle"
    /\ Cardinality(rows) + Cardinality({q \in Procs : pc[q] = "save_insert"}) < MaxRows
    /\ pc' = [pc EXCEPT ![p] = "save_insert"]
    /\ loc' = [loc EXCEPT ![p] = [arg |-> inst, inst |-> ClearPk(inst), t |-> now]]
    /\ UNCHANGED <<rows, nextId, cache, now, ticks, last>>

SaveInsert(p) ==
    /\ pc[p] = "save_insert"
    /\ LET stored == ModelSave(rows, nextId, loc[p].inst, loc[p].t)
       IN  /\ rows' = stored.rows
           /\ nextId' = stored.nextId
           /\ loc' = [loc EXCEPT ![p] = [arg |-> loc[p].arg, inst |-> stored.inst, t |-> loc[p].t]]
    /\ pc' = [pc EXCEPT ![p] = "save_delete_current"]
    /\ UNCHANGED <<cache, now, ticks, last>>

SaveDeleteCurrent(p) ==
    /\ pc[p] = "save_delete_current"
    /\ cache' = DeleteCurrentKey(cache, loc[p].inst)
    /\ pc' = [pc EXCEPT ![p] = "save_delete_key_values"]
    /\ UNCHANGED <<rows, nextId, now, ticks, last, loc>>

SaveDeleteKeyValues(p) ==
    /\ pc[p] = "save_delete_key_values"
    /\ cache' = DeleteKeyValuesKey(cache, loc[p].inst)
    /\ last' = Returned("save", loc[p].inst.cls, loc[p].arg, loc[p].inst, FALSE)
    /\ pc' = [pc EXCEPT ![p] = "idle"]
    /\ loc' = [loc EXCEPT ![p] = <<>>]
    /\ UNCHANGED <<rows, nextId, now, ticks>>

CurrentGet(p, cls, args) ==
    /\ pc[p] = "idle"
    /\ ~CacheKeyNameRaises(cls, args)
    /\ LET key == cache_key_name(cls, args)
       IN  IF CacheHas(cache, key, now)
           THEN /\ last' = Returned("current", cls, args, CacheGet(cache, key), TRUE)
                /\ UNCHANGED <<pc, loc>>
           ELSE /\ pc' = [pc EXCEPT ![p] = "current_query"]
                /\ loc' = [loc EXCEPT ![p] = [cls |-> cls, args |-> args]]
                /\ UNCHANGED last
    /\ UNCHANGED <<rows, nextId, cache, now, ticks>>

CurrentQuery(p) ==
    /\ pc[p] = "current_query"
    /\ \E cur \in Lookup(rows, loc[p].cls, loc[p].args) :
          loc' = [loc EXCEPT ![p] = [cls |-> loc[p].cls, args |-> loc[p].args, cur |-> cur]]
    /\ pc' = [pc EXCEPT ![p] = "current_set"]
    /\ UNCHANGED <<rows, nextId, cache, now, ticks, last>>

CurrentCacheSet(p) ==
    /\ pc[p] = "current_set"
    /\ cache' = CacheSet(cache, cache_key_name(loc[p].cls, loc[p].args), loc[p].cur, cache_timeout, now)
    /\ last' = Returned("current", loc[p].cls, loc[p].args, loc[p].cur, FALSE)
    /\ pc' = [pc EXCEPT ![p] = "idle"]
    /\ loc' = [loc EXCEPT ![p] = <<>>]
    /\ UNCHANGED <<rows, nextId, now, ticks>>

NextConc ==
    \/ \E p \in Procs : \E en \in BOOLEAN :
          SaveBegin(p, NewInstance("Keyed", KeyDict("Keyed", ConcKey), en))
    \/ \E p \in Procs : SaveInsert(p)
    \/ \E p \in Procs : SaveDeleteCurrent(p)
    \/ \E p \in Procs : SaveDeleteKeyValues(p)
    \/ \E p \in Procs : CurrentGet(p, "Keyed", ConcKey)
    \/ \E p \in Procs : CurrentQuery(p)
    \/ \E p \in Procs : CurrentCacheSet(p)
    \/ \E d \in TickDeltas : Tick(d)

SpecConc == Init /\ [][NextConc]_vars

(***************************************************************************)
(* Properties.                                                             *)
(***************************************************************************)
\* The stored rows of key tuple k, and the one with the highest id.
RowsOf(cls, k) == {r \in rows : r.cls = cls /\ r.key = k}

HighestIdRow(cls, k) ==
    CHOOSE r \in RowsOf(cls, k) : \A o \in RowsOf(cls, k) : o.pk <= r.pk

\* The last call was `op` and it returned normally.
IsCall(l, op) == l.op = op /\ l.raised = "no"

\* This step is a call that finished: `last` changed.  (Compared field by
\* field: the arguments and results of different operations are values of
\* different kinds.)
NewCall ==
    \/ last'.op # last.op
    \/ last'.cls # last.cls
    \/ last'.raised # last.raised
    \/ last'.hit # last.hit
    \/ last'.args # last.args
    \/ (last.raised = "no" /\ last'.ret # last.ret)

\* C1: read-your-writes.  The first current(k) made after a save() of key
\* tuple k has returned yields the instance that save stored, never an
\* earlier version and never the unpersisted default.
C1_ReadYourWrites ==
    [][(IsCall(last, "save") /\ IsCall(last', "current") /\ last'.args = last.ret.key)
          => /\ last'.ret.pk # None
             /\ last'.ret.key = last.ret.key
             /\ last'.ret.enabled = last.ret.enabled]_vars

\* C2: append-only storage.  Every step keeps every stored row as it is;
\* a save() adds exactly one row, the instance it stored, also when the
\* saved instance was loaded from a row; no other call changes the rows;
\* and the row count is the number of identifiers handed out.
C2_AppendOnly ==
    [][/\ rows \subseteq rows'
       /\ (last'.op = "save" /\ NewCall)
            => /\ Cardinality(rows') = Cardinality(rows) + 1
               /\ rows' \ rows = {last'.ret}
       /\ ~(last'.op = "save" /\ NewCall) => rows' = rows
       /\ Cardinality(rows') = nextId' - 1]_vars

\* A loaded instance with a changed value of enabled was saved, and the
\* row it was loaded from is still stored with its own value.
C2_Witness ==
    /\ IsCall(last, "save")
    /\ last.args.pk # None
    /\ \E r \in rows : r.pk = last.args.pk /\ r.enabled # last.args.enabled
    /\ last.ret.pk # last.args.pk
    /\ Cardinality(rows) = 2

\* C3: a current(k) that misses the cache and queries storage returns the
\* stored row of k with the highest id, also when rows of k carry the same
\* change_date.
C3_CurrentIsHighestId ==
    (IsCall(last, "current") /\ ~last.hit /\ RowsOf(last.cls, last.args) # {})
        => last.ret = HighestIdRow(last.cls, last.args)

\* C4: cache coherence under concurrency.  Once every in-flight save() and
\* current() has completed, the cache entry of k is absent or holds the
\* highest-id stored row of k (the default instance only while k has no
\* row).
C4_CacheCoherent ==
    (\A p \in Procs : pc[p] = "idle")
        => LET key == cache_key_name("Keyed", ConcKey)
           IN  CacheHas(cache, key, now)
                 => CacheGet(cache, key) =
                      IF RowsOf("Keyed", ConcKey) = {}
                      THEN NewInstance("Keyed", KeyDict("Keyed", ConcKey), FALSE)
                      ELSE HighestIdRow("Keyed", ConcKey)

\* C5: current(k) for a key tuple k without stored rows returns the
\* unpersisted instance: no identifier, enabled = False, key fields k.
C5_DefaultWhenNoRows ==
    (IsCall(last, "current") /\ RowsOf(last.cls, last.args) = {})
        => last.ret = NewInstance(last.cls, KeyDict(last.cls, last.args), FALSE)

\* C6: cache-hit contract.  An entry that current(k) cached stays as it is
\* across every step that neither expires it nor is a save() to k, and a
\* current(k) made while it is there returns it without a storage query.
C6_CacheHit ==
    [][\A k \in KeyTuples("Keyed") :
        LET key == cache_key_name("Keyed", k)
        IN  (/\ CacheHas(cache, key, now)
             /\ CacheGet(cache, key).key = k
             /\ cache[key].expires > now'
             /\ ~(last'.op = "save" /\ NewCall /\ last'.ret.key = k))
            => /\ key \in DOMAIN cache'
               /\ cache'[key] = cache[key]
               /\ (last'.op = "current" /\ NewCall /\ last'.args = k)
                     => (last'.hit /\ last'.ret = CacheGet(cache, key))]_vars

\* C7: bounded staleness.  current(k) serves a cached value only before
\* its expiry, cache_timeout after it was cached; a current(k) made once
\* the entry has expired queries storage and returns the latest stored row
\* of k.
C7_BoundedStaleness ==
    [][\A k \in KeyTuples("Keyed") :
        LET key == cache_key_name("Keyed", k)
        IN  (/\ IsCall(last', "current") /\ NewCall /\ last'.args = k
             /\ key \in DOMAIN cache)
            => /\ last'.hit => now < cache[key].expires
               /\ (cache[key].expires <= now /\ RowsOf("Keyed", k) # {})
                     => (~last'.hit /\ last'.ret = HighestIdRow("Keyed", k))]_vars

KeyValuesNow(cls) ==
    LET key == key_values_cache_key_name(cls, <<>>)
    IN  IF CacheHas(cache, key, now)
        THEN CacheGet(cache, key).values
        ELSE ValuesList(rows, cls, KEY_FIELDS(cls), FALSE).values

\* C9: for every key tuple v that key_values() returns, current(*v)
\* returns a persisted row (identifier set).
C9_KeyValuesResolve ==
    (IsCall(last, "current") /\ last.args \in KeyValuesNow(last.cls))
        => last.ret.pk # None

\* C10: current_set() holds exactly one row per distinct stored key tuple,
\* the row with the highest id of that key tuple, and no superseded row.
C10_CurrentSet ==
    IsCall(last, "current_set")
        => /\ {e.row : e \in last.ret} =
                {r \in Table(last.cls) :
                    \A o \in Table(last.cls) : o.key = r.key => o.pk <= r.pk}
           /\ \A r \in Table(last.cls) :
                Cardinality({e \in last.ret : e.row.key = r.key}) = 1

\* Row A and then row B were written with the same key tuple, and
\* current_set() returned B and not A.
C10_Witness ==
    /\ IsCall(last, "current_set")
    /\ \E a, b \in Table(last.cls) :
         /\ a.key = b.key /\ a.pk < b.pk
         /\ b \in {e.row : e \in last.ret}
         /\ a \notin {e.row : e \in last.ret}

\* C11: with_active_flag() returns every stored row of the subtype and
\* flags a row if and only if it is the most recently written (highest-id)
\* row of its key tuple; without KEY_FIELDS that is the single most
\* recently written row of a non-empty table.
C11_ActiveFlag ==
    (last.op = "with_active_flag"
        /\ (KEY_FIELDS(last.cls) # <<>> \/ Table(last.cls) # {}))
        => /\ last.raised = "no"
           /\ {e.row : e \in last.ret} = Table(last.cls)
           /\ \A e \in last.ret :
                (e.is_active = 1) <=> (e.row = HighestIdRow(last.cls, e.row.key))

\* C12: current() and is_enabled() called with a number of positional
\* arguments other than len(KEY_FIELDS) raise TypeError, on every subtype,
\* and write no cache entry.
C12_ArgumentCount ==
    [][(/\ NewCall
        /\ last'.op \in {"current", "is_enabled"}
        /\ Len(last'.args) # Len(KEY_FIELDS(last'.cls)))
          => (last'.raised = "TypeError" /\ cache' = cache)]_vars

\* C13: save() is all-or-nothing.  If it raises, the stored rows and the
\* cache are as before the call; if it returns, the new row is stored and
\* the cache entries of its key tuple and of the key_values enumeration
\* are gone.
C13_SaveAllOrNothing ==
    [][(last'.op = "save" /\ NewCall)
          => IF last'.raised # "no"
             THEN rows' = rows /\ cache' = cache
             ELSE /\ last'.ret \in rows'
                  /\ cache_key_name(last'.cls, last'.ret.key) \notin DOMAIN cache'
                  /\ key_values_cache_key_name(last'.cls, <<>>) \notin DOMAIN cache']_vars

\* C14: equal_to_current(payload) is False when the payload's key tuple
\* has no stored row, and otherwise True exactly when the compared fields
\* of the payload match those of the current (highest-id) row of its key
\* tuple.
C14_EqualToCurrent ==
    IsCall(last, "equal_to_current")
        => last.ret =
             (/\ RowsOf(last.cls, last.args.key) # {}
              /\ HighestIdRow(last.cls, last.args.key).enabled = last.args.enabled)

\* C15: fields_equal with the default fields_to_ignore is True exactly when
\* the two instances agree on the key fields and on enabled, whatever
\* their id, change_date, changed_by and many-to-many relations.
C15_FieldsEqual ==
    IsCall(last, "fields_equal")
        => last.ret =
             (/\ last.args[1].key = last.args[2].key
              /\ last.args[1].enabled = last.args[2].enabled)

\* Two instances that differ in id, change_date, changed_by and groups
\* and in nothing else compared equal.
C15_Witness ==
    /\ IsCall(last, "fields_equal")
    /\ last.ret
    /\ last.args[1].pk # last.args[2].pk
    /\ last.args[1].change_date # last.args[2].change_date
    /\ last.args[1].changed_by # last.args[2].changed_by
    /\ last.args[1].groups # last.args[2].groups

\* C20: no-op detection round trip.  equal_to_current called right after
\* a save() of the same key tuple is True exactly when the payload's
\* enabled is the saved one, and it adds no row.
C20_RoundTrip ==
    [][(/\ IsCall(last, "save")
        /\ IsCall(last', "equal_to_current")
        /\ last'.args.key = last.ret.key)
          => /\ last'.ret = (last'.args.enabled = last.ret.enabled)
             /\ rows' = rows]_vars

\* C16: identifiers follow write order and are never reused.  The row a
\* save() stores gets an identifier above that of every row stored before,
\* also when the saved instance carried the identifier of a stored row.
C16_IdsFollowWrites ==
    [][(IsCall(last', "save") /\ NewCall)
          => /\ last'.ret.pk # None
             /\ \A r \in rows : r.pk < last'.ret.pk]_vars

\* An instance that carried the identifier of the first row was saved
\* and stored under a new, higher identifier.
C16_Witness ==
    /\ IsCall(last, "save")
    /\ last.args.pk = 1
    /\ last.ret.pk = 2
    /\ {r.pk : r \in rows} = {1, 2}

\* C17: eviction scope of save().  A save() of key tuple k on a subtype
\* leaves no "current" entry of k, leaves no key_values enumeration if
\* the subtype has KEY_FIELDS, and leaves alone the "current" entry of
\* every other key tuple of the subtype and of every key tuple of the
\* other subtypes: an entry cached for such a key tuple stays as it is,
\* and none appears.
C17_EvictionScope ==
    [][(IsCall(last', "save") /\ NewCall)
          => LET cls == last'.cls
                 k == last'.ret.key
                 Untouched(c, k2) ==
                     LET key == cache_key_name(c, k2)
                     IN  IF key \in DOMAIN cache
                         THEN (cache[key].value.cls = c /\ cache[key].value.key = k2)
                                 => (key \in DOMAIN cache' /\ cache'[key] = cache[key])
                         ELSE key \notin DOMAIN cache'
             IN  /\ cache_key_name(cls, k) \notin DOMAIN cache'
                 /\ (KEY_FIELDS(cls) # <<>>)
                       => key_values_cache_key_name(cls, <<>>) \notin DOMAIN cache'
                 /\ \A k2 \in KeyTuples(cls) \ {k} : Untouched(cls, k2)
                 /\ \A c \in Classes \ {cls} : \A k2 \in KeyTuples(c) : Untouched(c, k2)]_vars

\* C18: the instance current(k) returns has key-field values k: cache keys
\* of distinct key tuples are distinct, so a value cached for one key
\* tuple is never returned for another.
C18_KeyIsolation ==
    IsCall(last, "current") => last.ret.key = last.args

\* C19: the key_values cache is transparent.  key_values(*fields, flat=f)
\* returns what a fresh storage query with the same arguments returns
\* (where that query is one the storage accepts), for every field list
\* and both values of flat: the same values in the same kind of list (an
\* empty list is of either kind).
C19_KeyValuesTransparent ==
    LET fields == IF last.args.fields # <<>> THEN last.args.fields
                  ELSE KEY_FIELDS(last.cls)
        fresh == ValuesList(rows, last.cls, fields, last.args.flat)
    IN  (IsCall(last, "key_values") /\ ~ValuesListRaises(fields, last.args.flat))
            => IF last.ret.flat = fresh.flat
               THEN last.ret.values = fresh.values
               ELSE last.ret.values = {} /\ fresh.values = {}

====
